---- MODULE Spec2Model ----
(***************************************************************************)
(* git-squish: rebase a topic branch onto an upstream and replace its      *)
(* history with one commit.                                                *)
(*                                                                         *)
(* Two entry points are modelled: the library function squash_branch       *)
(* (src/src/lib.rs) and the command-line program main (src/src/main.rs).   *)
(* They run the same sequence of engine calls and differ in how the squash *)
(* message is built and in the error type they return.                     *)
(*                                                                         *)
(* The repository is modelled as an object store (a sequence of commits,   *)
(* a commit's id being its position), a map of references, and HEAD.       *)
(* Ids are handed out in creation order, so a parent always has a smaller  *)
(* id than its children.                                                   *)
(*                                                                         *)
(* The rebase session is opened with RebaseOptions::inmemory(true)         *)
(* (lib.rs:35-37).  An in-memory session of the engine creates the         *)
(* replayed commits in the object store and keeps the last one in the      *)
(* session; it writes no reference and does not touch HEAD, neither while  *)
(* stepping nor in finish().                                               *)
(***************************************************************************)
EXTENDS Integers, Sequences, FiniteSets, TLC

(***************************************************************************)
(* Bounds of the model.                                                    *)
(***************************************************************************)
\* longest series of commits on the upstream after the fork point
MaxUpstream == 1
\* longest series of commits on the topic branch
MaxBranch == 3
\* number of distinct contents a file can have
NumVals == 3
\* number of times the function is called on the same repository
MaxRuns == 2

(***************************************************************************)
(* Texts, as sequences of characters, so that to_lowercase() and           *)
(* contains() are computed and not assumed.                                *)
(***************************************************************************)
\* "There was a conflict during this squish, please retry using git rebase -i and resolve the conflicts"
GuidanceText ==
    <<"T", "h", "e", "r", "e", " ", "w", "a", "s", " ", "a", " ", "c", "o",
      "n", "f", "l", "i", "c", "t", " ", "d", "u", "r", "i", "n", "g", " ",
      "t", "h", "i", "s", " ", "s", "q", "u", "i", "s", "h", ",", " ", "p",
      "l", "e", "a", "s", "e", " ", "r", "e", "t", "r", "y", " ", "u", "s",
      "i", "n", "g", " ", "g", "i", "t", " ", "r", "e", "b", "a", "s", "e",
      " ", "-", "i", " ", "a", "n", "d", " ", "r", "e", "s", "o", "l", "v",
      "e", " ", "t", "h", "e", " ", "c", "o", "n", "f", "l", "i", "c", "t",
      "s">>

\* "No commits found in the range to squash"
NoCommitsText ==
    <<"N", "o", " ", "c", "o", "m", "m", "i", "t", "s", " ", "f", "o", "u",
      "n", "d", " ", "i", "n", " ", "t", "h", "e", " ", "r", "a", "n", "g",
      "e", " ", "t", "o", " ", "s", "q", "u", "a", "s", "h">>

\* "First commit has no message"
FirstNoMessageText ==
    <<"F", "i", "r", "s", "t", " ", "c", "o", "m", "m", "i", "t", " ", "h",
      "a", "s", " ", "n", "o", " ", "m", "e", "s", "s", "a", "g", "e">>

\* "conflicts have not been resolved"
UnmergedText ==
    <<"c", "o", "n", "f", "l", "i", "c", "t", "s", " ", "h", "a", "v", "e",
      " ", "n", "o", "t", " ", "b", "e", "e", "n", " ", "r", "e", "s", "o",
      "l", "v", "e", "d">>

\* "this patch has already been applied"
AppliedText ==
    <<"t", "h", "i", "s", " ", "p", "a", "t", "c", "h", " ", "h", "a", "s",
      " ", "a", "l", "r", "e", "a", "d", "y", " ", "b", "e", "e", "n", " ",
      "a", "p", "p", "l", "i", "e", "d">>

\* "reference not found"
RefNotFoundText ==
    <<"r", "e", "f", "e", "r", "e", "n", "c", "e", " ", "n", "o", "t", " ",
      "f", "o", "u", "n", "d">>

\* "revspec not found"
RevspecNotFoundText ==
    <<"r", "e", "v", "s", "p", "e", "c", " ", "n", "o", "t", " ", "f", "o",
      "u", "n", "d">>

\* "config value 'user.name' was not found"
NoSignatureText ==
    <<"c", "o", "n", "f", "i", "g", " ", "v", "a", "l", "u", "e", " ", "'",
      "u", "s", "e", "r", ".", "n", "a", "m", "e", "'", " ", "w", "a", "s",
      " ", "n", "o", "t", " ", "f", "o", "u", "n", "d">>

\* "failed to lock file for writing"
LockText ==
    <<"f", "a", "i", "l", "e", "d", " ", "t", "o", " ", "l", "o", "c", "k",
      " ", "f", "i", "l", "e", " ", "f", "o", "r", " ", "w", "r", "i", "t",
      "i", "n", "g">>

\* "conflict"
WordConflict ==
    <<"c", "o", "n", "f", "l", "i", "c", "t">>

\* "merge"
WordMerge ==
    <<"m", "e", "r", "g", "e">>

\* "failed"
WordFailed ==
    <<"f", "a", "i", "l", "e", "d">>

\* "git rebase -i"
WordRebaseI ==
    <<"g", "i", "t", " ", "r", "e", "b", "a", "s", "e", " ", "-", "i">>

\* "conflict in file"
TextConflictInFile ==
    <<"c", "o", "n", "f", "l", "i", "c", "t", " ", "i", "n", " ", "f", "i",
      "l", "e">>

\* "CONFLICT in file"
TextUpperConflict ==
    <<"C", "O", "N", "F", "L", "I", "C", "T", " ", "i", "n", " ", "f", "i",
      "l", "e">>

\* "merge failed"
TextMergeFailed ==
    <<"m", "e", "r", "g", "e", " ", "f", "a", "i", "l", "e", "d">>

\* "repository not found"
TextRepoNotFound ==
    <<"r", "e", "p", "o", "s", "i", "t", "o", "r", "y", " ", "n", "o", "t",
      " ", "f", "o", "u", "n", "d">>

\* "invalid reference"
TextInvalidRef ==
    <<"i", "n", "v", "a", "l", "i", "d", " ", "r", "e", "f", "e", "r", "e",
      "n", "c", "e">>

\* "nothing to merge failed"
TextNothingToMerge ==
    <<"n", "o", "t", "h", "i", "n", "g", " ", "t", "o", " ", "m", "e", "r",
      "g", "e", " ", "f", "a", "i", "l", "e", "d">>

\* "Merge in progress"
TextMergeOnly ==
    <<"M", "e", "r", "g", "e", " ", "i", "n", " ", "p", "r", "o", "g", "r",
      "e", "s", "s">>

\* "failed to open"
TextFailedOnly ==
    <<"f", "a", "i", "l", "e", "d", " ", "t", "o", " ", "o", "p", "e", "n">>

\* "Failed: MERGE_HEAD"
TextFailedMerge ==
    <<"F", "a", "i", "l", "e", "d", ":", " ", "M", "E", "R", "G", "E", "_",
      "H", "E", "A", "D">>

(***************************************************************************)
(* String helpers: str::to_lowercase and str::contains.                    *)
(***************************************************************************)
LowerOf ==
    [c \in {"A","B","C","D","E","F","G","H","I","J","K","L","M","N","O",
            "P","Q","R","S","T","U","V","W","X","Y","Z"} |->
       CASE c = "A" -> "a" [] c = "B" -> "b" [] c = "C" -> "c"
         [] c = "D" -> "d" [] c = "E" -> "e" [] c = "F" -> "f"
         [] c = "G" -> "g" [] c = "H" -> "h" [] c = "I" -> "i"
         [] c = "J" -> "j" [] c = "K" -> "k" [] c = "L" -> "l"
         [] c = "M" -> "m" [] c = "N" -> "n" [] c = "O" -> "o"
         [] c = "P" -> "p" [] c = "Q" -> "q" [] c = "R" -> "r"
         [] c = "S" -> "s" [] c = "T" -> "t" [] c = "U" -> "u"
         [] c = "V" -> "v" [] c = "W" -> "w" [] c = "X" -> "x"
         [] c = "Y" -> "y" [] OTHER -> "z"]

to_lowercase(s) ==
    [i \in 1..Len(s) |-> IF s[i] \in DOMAIN LowerOf THEN LowerOf[s[i]] ELSE s[i]]

contains(s, pat) ==
    \E i \in 1..(Len(s) - Len(pat) + 1) : SubSeq(s, i, i + Len(pat) - 1) = pat

(***************************************************************************)
(* Engine errors (git2::Error): a class, a code and a text.                *)
(***************************************************************************)
ErrorClasses == {"None", "Merge", "Index", "Checkout", "Rebase", "Reference", "Config", "Os"}

ErrorCodes == {"GenericError", "NotFound", "Conflict", "MergeConflict", "Unmerged", "Applied", "Locked"}

EngineError(class, code, text) == [class |-> class, code |-> code, text |-> text]

\* rebase.commit() on an index that still holds conflicts
ErrUnmerged == EngineError("Rebase", "Unmerged", UnmergedText)

\* rebase.commit() when the replayed change leaves the tree as it was
ErrApplied == EngineError("Rebase", "Applied", AppliedText)

\* find_reference() on a name that does not exist
ErrRefNotFound == EngineError("Reference", "NotFound", RefNotFoundText)

\* revparse_single() on a spec that resolves to nothing
ErrRevspecNotFound == EngineError("Reference", "NotFound", RevspecNotFoundText)

\* repo.signature() without a configured identity
ErrNoSignature == EngineError("Config", "NotFound", NoSignatureText)

\* a write to the object store or to a reference that the engine refuses
ErrLocked == EngineError("Os", "Locked", LockText)

(***************************************************************************)
(* SquishError (error.rs:6-11) and the conversion From<git2::Error>        *)
(* (error.rs:24-47).                                                       *)
(***************************************************************************)
\* the keyword fallback dropped: only the structured codes are looked at
is_conflict_codes_only(e) ==
    \/ e.class = "Merge" /\ e.code = "Conflict"
    \/ e.class = "Merge" /\ e.code = "MergeConflict"
    \/ e.class = "Index" /\ e.code = "Unmerged"
    \/ e.class = "Checkout" /\ e.code = "Conflict"

\* the keyword fallback without to_lowercase()
is_conflict_case_sensitive(e) ==
    \/ is_conflict_codes_only(e)
    \/ contains(e.text, WordConflict)
    \/ contains(e.text, WordMerge) /\ contains(e.text, WordFailed)

is_conflict(e) ==
    \/ e.class = "Merge" /\ e.code = "Conflict"
    \/ e.class = "Merge" /\ e.code = "MergeConflict"
    \/ e.class = "Index" /\ e.code = "Unmerged"
    \/ e.class = "Checkout" /\ e.code = "Conflict"
    \/ LET msg == to_lowercase(e.text)
       IN  \/ contains(msg, WordConflict)
           \/ contains(msg, WordMerge) /\ contains(msg, WordFailed)

from(e) ==
    [kind |-> "Git",
     message |-> IF is_conflict(e) THEN GuidanceText ELSE e.text]

SquishErrorOther(text) == [kind |-> "Other", message |-> text]

\* main.rs returns the engine's error as it is (fn main() -> Result<(), Error>)
RawError(e) == [kind |-> "Engine", message |-> e.text]

(***************************************************************************)
(* The repository: trees, commits, the object store, references, HEAD.     *)
(***************************************************************************)
Files == {"text.txt", "other.txt"}

Vals == 0..(NumVals - 1)

NoOid == 0

\* a commit message: the text as lines of words; utf8 = FALSE is a message
\* that Commit::message() cannot return (it yields None)
Message(lines) == [utf8 |-> TRUE, lines |-> lines]

NotUtf8Message == [utf8 |-> FALSE, lines |-> << <<"\\xff">> >>]

EmptyMessage == Message(<<>>)

RootCommit ==
    [tree |-> [f \in Files |-> 0], parents |-> <<>>,
     message |-> Message(<< <<"Initial">> >>)]

\* Commit::summary(): the first line of the message, None when not UTF-8
HasSummary(m) == m.utf8

summary(m) == IF Len(m.lines) = 0 THEN <<>> ELSE m.lines[1]

\* the set of commits reachable from c, c included
RECURSIVE Ancestors(_, _)
Ancestors(store, c) ==
    {c} \cup UNION {Ancestors(store, store[c].parents[i]) :
                       i \in 1..Len(store[c].parents)}

\* a set of ids as a sequence, parents before children (ids are handed out
\* in creation order)
RECURSIVE OldestFirst(_)
OldestFirst(S) ==
    IF S = {} THEN <<>>
    ELSE LET m == CHOOSE x \in S : \A y \in S : x <= y
         IN  <<m>> \o OldestFirst(S \ {m})

\* Revwalk with push(tip), hide(base), Sort::TOPOLOGICAL | Sort::REVERSE
revwalk(store, tip, base) ==
    OldestFirst(Ancestors(store, tip) \ Ancestors(store, base))

\* the operations of a rebase session: the commits of upstream..branch,
\* oldest first, merge commits left out
RebaseOperations(store, branch, upstream) ==
    LET IsPick(c) == Len(store[c].parents) <= 1
    IN  SelectSeq(revwalk(store, branch, upstream), IsPick)

\* three-way merge of trees, file by file
MergeFile(anc, ours, theirs) ==
    IF ours = theirs THEN ours
    ELSE IF anc = ours THEN theirs
    ELSE ours

FileConflicts(anc, ours, theirs) ==
    ours # theirs /\ anc # ours /\ anc # theirs

MergeTrees(anc, ours, theirs) ==
    [tree |-> [f \in Files |-> MergeFile(anc[f], ours[f], theirs[f])],
     conflicts |-> {f \in Files : FileConflicts(anc[f], ours[f], theirs[f])}]

\* the tree a replayed commit is compared with: its parent's, or the empty
\* tree for a root commit
ParentTree(store, c) ==
    IF Len(store[c].parents) = 0 THEN [f \in Files |-> 0]
    ELSE store[store[c].parents[1]].tree

\* Repository::revparse_single on a branch short name
revparse_single(rf, spec) ==
    IF spec = "main" /\ "refs/heads/main" \in DOMAIN rf THEN rf["refs/heads/main"]
    ELSE IF spec = "topic" /\ "refs/heads/topic" \in DOMAIN rf THEN rf["refs/heads/topic"]
    ELSE NoOid

\* Repository::head(): the reference HEAD resolves to.  ok = FALSE when HEAD
\* names a branch that does not exist.
ResolveHead(hd, rf) ==
    IF hd.symbolic
    THEN IF hd.name \in DOMAIN rf
         THEN [ok |-> TRUE, name |-> hd.name, target |-> rf[hd.name], is_branch |-> TRUE]
         ELSE [ok |-> FALSE, name |-> hd.name, target |-> NoOid, is_branch |-> FALSE]
    ELSE [ok |-> TRUE, name |-> "HEAD", target |-> hd.target, is_branch |-> FALSE]

\* the commit HEAD resolves to, NoOid if none
HeadCommit(hd, rf) == ResolveHead(hd, rf).target

(***************************************************************************)
(* Repositories the program is started on.                                 *)
(***************************************************************************)
\* a change sets one file to another content
Changes == Files \X (1..(NumVals - 1))

RECURSIVE AddChain(_, _, _, _)
AddChain(store, parent, changes, msgs) ==
    IF Len(changes) = 0 THEN store
    ELSE LET f == changes[1][1]
             old == store[parent].tree[f]
             c == [tree |-> [store[parent].tree EXCEPT ![f] = (old + changes[1][2]) % NumVals],
                   parents |-> <<parent>>,
                   message |-> msgs[1]]
         IN  AddChain(Append(store, c), Len(store) + 1, Tail(changes), Tail(msgs))

\* messages of the oldest commit of the topic branch
FirstMessages ==
    { Message(<< <<"A">> >>),
      Message(<< <<"A">>, <<>>, <<"details">> >>),
      Message(<< <<"*", "A">> >>),
      NotUtf8Message }

\* messages of the later commits of the topic branch, by position
LaterMessage(i) ==
    IF i % 2 = 0 THEN Message(<< <<"B">> >>) ELSE Message(<< <<"C">>, <<>>, <<"more">> >>)

UpstreamMessage == Message(<< <<"Upstream">> >>)

BranchInputs == {"refs/heads/topic", "refs/heads/nope"}

UpstreamInputs == {"main", "nope"}

Variants == {"lib", "main"}

(***************************************************************************)
(* State.                                                                  *)
(***************************************************************************)
VARIABLES
    variant,         \* "lib": squash_branch of lib.rs; "main": main of main.rs
    commits,         \* the object store
    refs,            \* reference name -> commit id
    head,            \* HEAD: symbolic (a reference name) or detached (an id)
    branch_refname,  \* argument
    upstream_spec,   \* argument
    pc,              \* position in the function
    branch_annot,    \* the commit the branch resolved to
    upstream_id,     \* the commit the upstream spec resolved to
    rebase,          \* the rebase session
    rebased_tip_id,  \* what the branch reference names after finish()
    message,         \* the squash message
    new_commit_id,   \* the squash commit
    error,           \* the last git2::Error raised
    result,          \* what the function returned
    refs0,           \* refs when the function was called
    head0,           \* HEAD when the function was called
    run              \* how many times the function has been called

vars == <<variant, commits, refs, head, branch_refname, upstream_spec, pc,
          branch_annot, upstream_id, rebase, rebased_tip_id, message,
          new_commit_id, error, result, refs0, head0, run>>

NoError == EngineError("None", "GenericError", <<>>)

NoSession ==
    [ops |-> <<>>, cur |-> 0, last_commit |-> NoOid,
     index |-> [tree |-> [f \in Files |-> 0], conflicts |-> {}],
     finished |-> FALSE]

Running == [kind |-> "Running", message |-> <<>>]

\* Ok(format!("... Successfully rebased and updated {branch_refname}."))
Success(name) == [kind |-> "Ok", message |-> <<"Successfully rebased and updated", name>>]

Init ==
    /\ \E nU \in 0..MaxUpstream, nB \in 0..MaxBranch :
       \E uch \in [1..nU -> Changes], bch \in [1..nB -> Changes],
          fork \in {"base", "upstream"}, first \in FirstMessages,
          h \in {"topic", "main", "detached"} :
          LET s1 == AddChain(<<RootCommit>>, 1, uch, [i \in 1..nU |-> UpstreamMessage])
              upTip == Len(s1)
              forkPoint == IF fork = "base" THEN 1 ELSE upTip
              s2 == AddChain(s1, forkPoint, bch,
                             [i \in 1..nB |-> IF i = 1 THEN first ELSE LaterMessage(i)])
              topicTip == IF nB = 0 THEN forkPoint ELSE Len(s2)
          IN  /\ commits = s2
              /\ refs = [n \in {"refs/heads/main", "refs/heads/topic"} |->
                            IF n = "refs/heads/main" THEN upTip ELSE topicTip]
              /\ head = IF h = "detached"
                        THEN [symbolic |-> FALSE, name |-> "HEAD", target |-> topicTip]
                        ELSE [symbolic |-> TRUE,
                              name |-> IF h = "topic" THEN "refs/heads/topic"
                                       ELSE "refs/heads/main",
                              target |-> NoOid]
    /\ variant \in Variants
    /\ branch_refname \in BranchInputs
    /\ upstream_spec \in UpstreamInputs
    /\ pc = "resolve"
    /\ branch_annot = NoOid
    /\ upstream_id = NoOid
    /\ rebase = NoSession
    /\ rebased_tip_id = NoOid
    /\ message = EmptyMessage
    /\ new_commit_id = NoOid
    /\ error = NoError
    /\ result = Running
    /\ refs0 = refs
    /\ head0 = head
    /\ run = 1

(***************************************************************************)
(* The `?` operator: the error is converted and returned.  squash_branch   *)
(* returns SquishError, so From<git2::Error> applies; main returns the     *)
(* engine's error.                                                         *)
(***************************************************************************)
Fail(e) ==
    /\ error' = e
    /\ result' = IF variant = "lib" THEN from(e) ELSE RawError(e)
    /\ pc' = "done"

\* a local failure reported as an engine failure
FailOtherAsGit(text) ==
    /\ result' = [kind |-> "Git", message |-> text]
    /\ pc' = "done"
    /\ UNCHANGED error

FailOther(text) ==
    /\ result' = SquishErrorOther(text)
    /\ pc' = "done"
    /\ UNCHANGED error

(***************************************************************************)
(* lib.rs:23-32 / main.rs:38-45: resolve the branch and the upstream.      *)
(***************************************************************************)
Resolve ==
    /\ pc = "resolve"
    /\ IF branch_refname \notin DOMAIN refs
       THEN Fail(ErrRefNotFound) /\ UNCHANGED <<branch_annot, upstream_id>>
       ELSE IF revparse_single(refs, upstream_spec) = NoOid
       THEN Fail(ErrRevspecNotFound) /\ UNCHANGED <<branch_annot, upstream_id>>
       ELSE /\ branch_annot' = refs[branch_refname]
            /\ upstream_id' = revparse_single(refs, upstream_spec)
            /\ pc' = "rebase_init"
            /\ UNCHANGED <<error, result>>
    /\ UNCHANGED <<run, variant, commits, refs, head, branch_refname, upstream_spec,
                   rebase, rebased_tip_id, message, new_commit_id, refs0, head0>>

(***************************************************************************)
(* lib.rs:35-47: open the in-memory session, then read the signature.      *)
(***************************************************************************)
RebaseInit ==
    /\ pc = "rebase_init"
    /\ \E sigOk \in BOOLEAN :
         /\ rebase' = [NoSession EXCEPT
                          !.ops = RebaseOperations(commits, branch_annot, upstream_id),
                          !.last_commit = upstream_id]
         /\ IF sigOk
            THEN pc' = "rebase_next" /\ UNCHANGED <<error, result>>
            ELSE Fail(ErrNoSignature)
    /\ UNCHANGED <<run, variant, commits, refs, head, branch_refname, upstream_spec,
                   branch_annot, upstream_id, rebased_tip_id, message,
                   new_commit_id, refs0, head0>>

(***************************************************************************)
(* lib.rs:48-49: rebase.next().  None ends the loop; otherwise the next    *)
(* commit is applied on the session's last commit, into the session index. *)
(***************************************************************************)
RebaseNext ==
    /\ pc = "rebase_next"
    /\ IF rebase.cur = Len(rebase.ops)
       THEN pc' = "rebase_finish" /\ UNCHANGED rebase
       ELSE LET op == rebase.ops[rebase.cur + 1]
            IN  /\ rebase' = [rebase EXCEPT
                                 !.cur = rebase.cur + 1,
                                 !.index = MergeTrees(ParentTree(commits, op),
                                                      commits[rebase.last_commit].tree,
                                                      commits[op].tree)]
                /\ pc' = "rebase_commit"
    /\ UNCHANGED <<run, variant, commits, refs, head, branch_refname, upstream_spec,
                   branch_annot, upstream_id, rebased_tip_id, message,
                   new_commit_id, error, result, refs0, head0>>

\* a loop that drops an operation that cannot be committed and goes on
RebaseCommitSkipFailed ==
    /\ pc = "rebase_commit"
    /\ IF \/ rebase.index.conflicts # {}
          \/ rebase.index.tree = commits[rebase.last_commit].tree
       THEN pc' = "rebase_next" /\ UNCHANGED <<commits, rebase, error, result>>
       ELSE /\ commits' = Append(commits,
                             [tree |-> rebase.index.tree,
                              parents |-> <<rebase.last_commit>>,
                              message |-> commits[rebase.ops[rebase.cur]].message])
            /\ rebase' = [rebase EXCEPT !.last_commit = Len(commits) + 1]
            /\ pc' = "rebase_next"
            /\ UNCHANGED <<error, result>>
    /\ UNCHANGED <<run, variant, refs, head, branch_refname, upstream_spec,
                   branch_annot, upstream_id, rebased_tip_id, message,
                   new_commit_id, refs0, head0>>

(***************************************************************************)
(* lib.rs:52: rebase.commit(Some(&sig), &sig, None): commit the index on   *)
(* top of the session's last commit, with the message of the original.     *)
(***************************************************************************)
RebaseCommit ==
    /\ pc = "rebase_commit"
    /\ IF rebase.index.conflicts # {}
       THEN Fail(ErrUnmerged) /\ UNCHANGED <<commits, rebase>>
       ELSE IF rebase.index.tree = commits[rebase.last_commit].tree
       THEN Fail(ErrApplied) /\ UNCHANGED <<commits, rebase>>
       ELSE /\ commits' = Append(commits,
                             [tree |-> rebase.index.tree,
                              parents |-> <<rebase.last_commit>>,
                              message |-> commits[rebase.ops[rebase.cur]].message])
            /\ rebase' = [rebase EXCEPT !.last_commit = Len(commits) + 1]
            /\ pc' = "rebase_next"
            /\ UNCHANGED <<error, result>>
    /\ UNCHANGED <<run, variant, refs, head, branch_refname, upstream_spec,
                   branch_annot, upstream_id, rebased_tip_id, message,
                   new_commit_id, refs0, head0>>

\* finish() of a session that is not in memory: the branch is moved to the
\* last replayed commit
RebaseFinishMovesBranch ==
    /\ pc = "rebase_finish"
    /\ rebase' = [rebase EXCEPT !.finished = TRUE]
    /\ refs' = [refs EXCEPT ![branch_refname] = rebase.last_commit]
    /\ pc' = "fetch_tip"
    /\ UNCHANGED <<run, variant, commits, head, branch_refname, upstream_spec,
                   branch_annot, upstream_id, rebased_tip_id, message,
                   new_commit_id, error, result, refs0, head0>>

(***************************************************************************)
(* lib.rs:55: rebase.finish(None).  For an in-memory session this ends the *)
(* session and writes nothing.                                             *)
(***************************************************************************)
RebaseFinish ==
    /\ pc = "rebase_finish"
    /\ rebase' = [rebase EXCEPT !.finished = TRUE]
    /\ pc' = "fetch_tip"
    /\ UNCHANGED <<run, variant, commits, refs, head, branch_refname, upstream_spec,
                   branch_annot, upstream_id, rebased_tip_id, message,
                   new_commit_id, error, result, refs0, head0>>

(***************************************************************************)
(* lib.rs:58-64: read the branch reference again.                          *)
(***************************************************************************)
FetchRebasedTip ==
    /\ pc = "fetch_tip"
    /\ rebased_tip_id' = refs[branch_refname]
    /\ pc' = "build_message"
    /\ UNCHANGED <<run, variant, commits, refs, head, branch_refname, upstream_spec,
                   branch_annot, upstream_id, rebase, message,
                   new_commit_id, error, result, refs0, head0>>

(***************************************************************************)
(* build_squash_message.                                                   *)
(***************************************************************************)
\* str::trim_start_matches("* ") on a line of words
RECURSIVE trim_start_matches(_)
trim_start_matches(line) ==
    IF Len(line) >= 2 /\ line[1] = "*" THEN trim_start_matches(Tail(line)) ELSE line

\* the walk taken newest first (Sort::REVERSE forgotten)
subjects_newest_first(store, range) ==
    [i \in 1..Len(range) |->
        <<"*">> \o (IF HasSummary(store[range[Len(range) + 1 - i]].message)
                    THEN summary(store[range[Len(range) + 1 - i]].message)
                    ELSE <<"(no", "subject)">>)]

\* main.rs:151-157: one "* <summary>" line per commit of the range
subjects(store, range) ==
    [i \in 1..Len(range) |->
        <<"*">> \o (IF HasSummary(store[range[i]].message)
                    THEN summary(store[range[i]].message)
                    ELSE <<"(no", "subject)">>)]

\* main.rs:144-174
build_squash_message_main(store, upstream_parent, rebased_tip) ==
    LET subj == subjects(store, revwalk(store, rebased_tip, upstream_parent))
        title == IF Len(subj) > 0 THEN trim_start_matches(subj[1])
                 ELSE <<"Squashed", "commit">>
    IN  Message(<<title, <<>>, <<"Squashed", "commits:">>>> \o subj)

\* the message of the newest commit of the walk instead of the oldest
build_squash_message_newest(store, upstream_parent, rebased_tip) ==
    LET walk == revwalk(store, rebased_tip, upstream_parent)
    IN  IF Len(walk) > 0
        THEN IF store[walk[Len(walk)]].message.utf8
             THEN [ok |-> TRUE, message |-> store[walk[Len(walk)]].message, text |-> <<>>]
             ELSE [ok |-> FALSE, message |-> EmptyMessage, text |-> FirstNoMessageText]
        ELSE [ok |-> FALSE, message |-> EmptyMessage, text |-> NoCommitsText]

\* an empty walk answered with a default title instead of an error
build_squash_message_default_title(store, upstream_parent, rebased_tip) ==
    LET walk == revwalk(store, rebased_tip, upstream_parent)
    IN  IF Len(walk) > 0
        THEN IF store[walk[1]].message.utf8
             THEN [ok |-> TRUE, message |-> store[walk[1]].message, text |-> <<>>]
             ELSE [ok |-> FALSE, message |-> EmptyMessage, text |-> FirstNoMessageText]
        ELSE [ok |-> TRUE, message |-> Message(<< <<"Squashed", "commit">> >>), text |-> <<>>]

\* lib.rs:135-162: ok with the message of the first commit of the walk, or
\* the text of an Other error
build_squash_message(store, upstream_parent, rebased_tip) ==
    LET walk == revwalk(store, rebased_tip, upstream_parent)
    IN  IF Len(walk) > 0
        THEN IF store[walk[1]].message.utf8
             THEN [ok |-> TRUE, message |-> store[walk[1]].message, text |-> <<>>]
             ELSE [ok |-> FALSE, message |-> EmptyMessage, text |-> FirstNoMessageText]
        ELSE [ok |-> FALSE, message |-> EmptyMessage, text |-> NoCommitsText]

(***************************************************************************)
(* lib.rs:69 / main.rs:82                                                  *)
(***************************************************************************)
BuildMessage ==
    /\ pc = "build_message"
    /\ IF variant = "lib"
       THEN LET r == build_squash_message(commits, upstream_id, rebased_tip_id)
            IN  IF r.ok
                THEN message' = r.message /\ pc' = "create_commit"
                     /\ UNCHANGED <<error, result>>
                ELSE FailOther(r.text) /\ UNCHANGED message
       ELSE /\ message' = build_squash_message_main(commits, upstream_id, rebased_tip_id)
            /\ pc' = "create_commit"
            /\ UNCHANGED <<error, result>>
    /\ UNCHANGED <<run, variant, commits, refs, head, branch_refname, upstream_spec,
                   branch_annot, upstream_id, rebase, rebased_tip_id,
                   new_commit_id, refs0, head0>>

(***************************************************************************)
(* lib.rs:75-82: repo.commit(None, ...): a new commit with the tree of     *)
(* rebased_tip and the upstream as its only parent; no reference updated.  *)
(***************************************************************************)
\* the squash commit on top of the parents of the rebased tip
SquashCommitOnTipParents ==
    [tree |-> commits[rebased_tip_id].tree,
     parents |-> commits[rebased_tip_id].parents,
     message |-> message]

\* the squash commit on top of the tip it squashes
SquashCommitOnTip ==
    [tree |-> commits[rebased_tip_id].tree,
     parents |-> <<rebased_tip_id>>,
     message |-> message]

\* lib.rs:75-82: the commit handed to repo.commit
SquashCommit ==
    [tree |-> commits[rebased_tip_id].tree,
     parents |-> <<upstream_id>>,
     message |-> message]

\* the result of repo.commit not checked: a refused write goes on with no id
CreateCommitUnchecked ==
    /\ pc = "create_commit"
    /\ \E written \in BOOLEAN :
         IF written
         THEN /\ commits' = Append(commits, SquashCommit)
              /\ new_commit_id' = Len(commits) + 1
         ELSE UNCHANGED <<commits, new_commit_id>>
    /\ pc' = "set_branch"
    /\ UNCHANGED <<run, variant, refs, head, branch_refname, upstream_spec,
                   branch_annot, upstream_id, rebase, rebased_tip_id, message,
                   error, result, refs0, head0>>

CreateCommit ==
    /\ pc = "create_commit"
    /\ \E written \in BOOLEAN :
         IF written
         THEN /\ commits' = Append(commits, SquashCommit)
              /\ new_commit_id' = Len(commits) + 1
              /\ pc' = "set_branch"
              /\ UNCHANGED <<error, result>>
         ELSE Fail(ErrLocked) /\ UNCHANGED <<commits, new_commit_id>>
    /\ UNCHANGED <<run, variant, refs, head, branch_refname, upstream_spec,
                   branch_annot, upstream_id, rebase, rebased_tip_id, message,
                   refs0, head0>>

(***************************************************************************)
(* lib.rs:85-86: find the branch reference and set its target.             *)
(***************************************************************************)
\* the branch set to the last replayed commit instead of the squash commit
SetBranchTargetRebasedTip ==
    /\ pc = "set_branch"
    /\ \E written \in BOOLEAN :
         IF written
         THEN /\ refs' = [refs EXCEPT ![branch_refname] = rebase.last_commit]
              /\ pc' = "move_head"
              /\ UNCHANGED <<error, result>>
         ELSE Fail(ErrLocked) /\ UNCHANGED refs
    /\ UNCHANGED <<run, variant, commits, head, branch_refname, upstream_spec,
                   branch_annot, upstream_id, rebase, rebased_tip_id, message,
                   new_commit_id, refs0, head0>>

SetBranchTarget ==
    /\ pc = "set_branch"
    /\ \E written \in BOOLEAN :
         IF written
         THEN /\ refs' = [refs EXCEPT ![branch_refname] = new_commit_id]
              /\ pc' = "move_head"
              /\ UNCHANGED <<error, result>>
         ELSE Fail(ErrLocked) /\ UNCHANGED refs
    /\ UNCHANGED <<run, variant, commits, head, branch_refname, upstream_spec,
                   branch_annot, upstream_id, rebase, rebased_tip_id, message,
                   new_commit_id, refs0, head0>>

(***************************************************************************)
(* lib.rs:89-97: if HEAD resolves to this branch, set the target of the    *)
(* reference HEAD resolved to; then return Ok.                             *)
(***************************************************************************)
\* HEAD detached at the squash commit instead of being left on the branch
MoveHeadDetach ==
    /\ pc = "move_head"
    /\ LET hd == ResolveHead(head, refs)
       IN  IF hd.ok /\ hd.is_branch /\ hd.name = branch_refname
           THEN head' = [symbolic |-> FALSE, name |-> "HEAD", target |-> new_commit_id]
           ELSE UNCHANGED head
    /\ result' = Success(branch_refname)
    /\ pc' = "done"
    /\ UNCHANGED <<run, variant, commits, refs, branch_refname, upstream_spec,
                   branch_annot, upstream_id, rebase, rebased_tip_id, message,
                   new_commit_id, error, refs0, head0>>

\* HEAD moved to the squash commit whatever it names
MoveHeadAlways ==
    /\ pc = "move_head"
    /\ LET hd == ResolveHead(head, refs)
       IN  IF hd.ok /\ hd.is_branch
           THEN refs' = [refs EXCEPT ![hd.name] = new_commit_id] /\ UNCHANGED head
           ELSE IF hd.ok
           THEN head' = [head EXCEPT !.target = new_commit_id] /\ UNCHANGED refs
           ELSE UNCHANGED <<refs, head>>
    /\ result' = Success(branch_refname)
    /\ pc' = "done"
    /\ UNCHANGED <<run, variant, commits, branch_refname, upstream_spec,
                   branch_annot, upstream_id, rebase, rebased_tip_id, message,
                   new_commit_id, error, refs0, head0>>

MoveHead ==
    /\ pc = "move_head"
    /\ LET hd == ResolveHead(head, refs)
       IN  IF hd.ok /\ hd.is_branch /\ hd.name = branch_refname
           THEN \E written \in BOOLEAN :
                  IF written
                  THEN /\ refs' = [refs EXCEPT ![hd.name] = new_commit_id]
                       /\ result' = Success(branch_refname)
                       /\ pc' = "done"
                       /\ UNCHANGED error
                  ELSE Fail(ErrLocked) /\ UNCHANGED refs
           ELSE /\ result' = Success(branch_refname)
                /\ pc' = "done"
                /\ UNCHANGED <<refs, error>>
    /\ UNCHANGED <<run, variant, commits, head, branch_refname, upstream_spec,
                   branch_annot, upstream_id, rebase, rebased_tip_id, message,
                   new_commit_id, refs0, head0>>

(***************************************************************************)
(* lib.rs:18-22: the function is called again, with the same arguments, on *)
(* the repository a successful call has left.                              *)
(***************************************************************************)
SquashAgain ==
    /\ pc = "done"
    /\ result.kind = "Ok"
    /\ run < MaxRuns
    /\ run' = run + 1
    /\ pc' = "resolve"
    /\ branch_annot' = NoOid
    /\ upstream_id' = NoOid
    /\ rebase' = NoSession
    /\ rebased_tip_id' = NoOid
    /\ message' = EmptyMessage
    /\ new_commit_id' = NoOid
    /\ error' = NoError
    /\ result' = Running
    /\ refs0' = refs
    /\ head0' = head
    /\ UNCHANGED <<variant, commits, refs, head, branch_refname, upstream_spec>>

Next ==
    \/ Resolve
    \/ RebaseInit
    \/ RebaseNext
    \/ RebaseCommit
    \/ RebaseFinish
    \/ FetchRebasedTip
    \/ BuildMessage
    \/ CreateCommit
    \/ SetBranchTarget
    \/ MoveHead
    \/ SquashAgain

Spec == Init /\ [][Next]_vars

(***************************************************************************)
(* The conversion on its own: every class, code and text below is          *)
(* converted once.  The texts are those of the tests of error.rs and of    *)
(* the engine errors above.                                                *)
(***************************************************************************)
ErrorTexts ==
    {TextConflictInFile, TextUpperConflict, TextMergeFailed, TextRepoNotFound,
     TextInvalidRef, TextNothingToMerge, TextMergeOnly, TextFailedOnly,
     TextFailedMerge, UnmergedText, AppliedText, LockText, RefNotFoundText}

InitErr ==
    /\ error \in {EngineError(c, k, t) : c \in ErrorClasses, k \in ErrorCodes, t \in ErrorTexts}
    /\ pc = "from"
    /\ variant = "lib"
    /\ commits = <<RootCommit>>
    /\ refs = [n \in {"refs/heads/main", "refs/heads/topic"} |-> 1]
    /\ head = [symbolic |-> TRUE, name |-> "refs/heads/topic", target |-> NoOid]
    /\ branch_refname = "refs/heads/topic"
    /\ upstream_spec = "main"
    /\ branch_annot = NoOid
    /\ upstream_id = NoOid
    /\ rebase = NoSession
    /\ rebased_tip_id = NoOid
    /\ message = EmptyMessage
    /\ new_commit_id = NoOid
    /\ result = Running
    /\ refs0 = refs
    /\ head0 = head
    /\ run = 1

\* error.rs:24-47
FromGit2Error ==
    /\ pc = "from"
    /\ result' = from(error)
    /\ pc' = "converted"
    /\ UNCHANGED <<run, variant, commits, refs, head, branch_refname, upstream_spec,
                   branch_annot, upstream_id, rebase, rebased_tip_id, message,
                   new_commit_id, error, refs0, head0>>

NextErr == FromGit2Error

ErrSpec == InitErr /\ [][NextErr]_vars

(***************************************************************************)
(* get_current_branch_name (lib.rs:102-130, main.rs:114-140).              *)
(*                                                                         *)
(* Repository::head() returns the reference HEAD resolves to: the branch   *)
(* when HEAD is symbolic, the reference "HEAD" itself when HEAD is         *)
(* detached.  Reference::name() is None only for a name that is not valid  *)
(* UTF-8, so the search through the local branches runs only then.         *)
(***************************************************************************)
\* number of commits of the repositories the function is called on
NumNameCommits == 2

\* "Cannot determine current branch - HEAD is detached and no branch points to current commit"
NoBranchText ==
    <<"C", "a", "n", "n", "o", "t", " ", "d", "e", "t", "e", "r", "m", "i",
      "n", "e", " ", "c", "u", "r", "r", "e", "n", "t", " ", "b", "r", "a",
      "n", "c", "h", " ", "-", " ", "H", "E", "A", "D", " ", "i", "s", " ",
      "d", "e", "t", "a", "c", "h", "e", "d", " ", "a", "n", "d", " ", "n",
      "o", " ", "b", "r", "a", "n", "c", "h", " ", "p", "o", "i", "n", "t",
      "s", " ", "t", "o", " ", "c", "u", "r", "r", "e", "n", "t", " ", "c",
      "o", "m", "m", "i", "t">>

\* "HEAD does not point to a valid commit"
NoHeadCommitText ==
    <<"H", "E", "A", "D", " ", "d", "o", "e", "s", " ", "n", "o", "t", " ",
      "p", "o", "i", "n", "t", " ", "t", "o", " ", "a", " ", "v", "a", "l",
      "i", "d", " ", "c", "o", "m", "m", "i", "t">>

\* "reference not found"
UnbornBranchText ==
    <<"r", "e", "f", "e", "r", "e", "n", "c", "e", " ", "n", "o", "t", " ",
      "f", "o", "u", "n", "d">>

\* a branch whose name is not valid UTF-8
NonUtf8Branch == "refs/heads/\\xff"

BranchNames == {"refs/heads/main", "refs/heads/topic", NonUtf8Branch}

\* Reference::name() is Some
name_is_utf8(n) == n # NonUtf8Branch

\* repo.head() on a HEAD that names a branch with no commit
ErrUnbornBranch == EngineError("Reference", "UnbornBranch", UnbornBranchText)

\* Ok(name.to_string())
NameOk(n) == [kind |-> "Ok", message |-> <<n>>]

\* the `?` operator and the local errors of the function: SquishError in
\* lib.rs, git2::Error (Error::from_str) in main.rs
NameFail(e) ==
    /\ error' = e
    /\ result' = IF variant = "lib" THEN from(e) ELSE RawError(e)
    /\ pc' = "returned"

NameFailOther(text) ==
    /\ result' = IF variant = "lib" THEN SquishErrorOther(text)
                 ELSE [kind |-> "Engine", message |-> text]
    /\ pc' = "returned"
    /\ UNCHANGED error

InitName ==
    /\ commits = AddChain(<<RootCommit>>, 1,
                          [i \in 1..(NumNameCommits - 1) |-> <<"text.txt", 1>>],
                          [i \in 1..(NumNameCommits - 1) |-> UpstreamMessage])
    /\ \E S \in SUBSET BranchNames : refs \in [S -> 1..NumNameCommits]
    /\ \/ \E n \in BranchNames :
             head = [symbolic |-> TRUE, name |-> n, target |-> NoOid]
       \/ \E c \in 1..NumNameCommits :
             head = [symbolic |-> FALSE, name |-> "HEAD", target |-> c]
    /\ variant \in Variants
    /\ pc = "current_branch"
    /\ branch_refname = "refs/heads/topic"
    /\ upstream_spec = "main"
    /\ branch_annot = NoOid
    /\ upstream_id = NoOid
    /\ rebase = NoSession
    /\ rebased_tip_id = NoOid
    /\ message = EmptyMessage
    /\ new_commit_id = NoOid
    /\ error = NoError
    /\ result = Running
    /\ refs0 = refs
    /\ head0 = head
    /\ run = 1

\* lib.rs:102-130
GetCurrentBranchName ==
    /\ pc = "current_branch"
    /\ LET hd == ResolveHead(head, refs)
           matches == {n \in DOMAIN refs : refs[n] = hd.target /\ name_is_utf8(n)}
       IN  IF ~hd.ok
           THEN NameFail(ErrUnbornBranch)
           ELSE IF name_is_utf8(hd.name)
           THEN /\ result' = NameOk(hd.name)
                /\ pc' = "returned"
                /\ UNCHANGED error
           ELSE IF hd.target = NoOid
           THEN NameFailOther(NoHeadCommitText)
           ELSE IF matches # {}
           THEN \E n \in matches :
                   /\ result' = NameOk(n)
                   /\ pc' = "returned"
                   /\ UNCHANGED error
           ELSE NameFailOther(NoBranchText)
    /\ UNCHANGED <<run, variant, commits, refs, head, branch_refname, upstream_spec,
                   branch_annot, upstream_id, rebase, rebased_tip_id, message,
                   new_commit_id, refs0, head0>>

NextName == GetCurrentBranchName

NameSpec == InitName /\ [][NextName]_vars

(***************************************************************************)
(* The two functions of the library together.                              *)
(***************************************************************************)
InitLib == Init \/ InitName

NextLib == Next \/ NextName

LibSpec == InitLib /\ [][NextLib]_vars

(***************************************************************************)
(* Properties.                                                             *)
(***************************************************************************)
Succeeded == pc = "done" /\ result.kind = "Ok"

\* HEAD named the branch being squashed when the function was called
HeadOnBranch0 ==
    head0.symbolic /\ head0.name = branch_refname /\ branch_refname \in DOMAIN refs0

\* the commit the upstream spec names in the repository as it was at the call
UpstreamAtStart == revparse_single(refs0, upstream_spec)

\* the first-parent line of a commit, root first
RECURSIVE Lineage(_, _)
Lineage(store, c) ==
    IF Len(store[c].parents) = 0 THEN <<c>>
    ELSE Append(Lineage(store, store[c].parents[1]), c)

\* the commits of tip's line that are not on base's line, oldest first
UniqueCommits(store, tip, base) ==
    LET onBase == {Lineage(store, base)[i] : i \in 1..Len(Lineage(store, base))}
        NotOnBase(c) == c \notin onBase
    IN  SelectSeq(Lineage(store, tip), NotOnBase)

\* a plain linearizing rebase of the commits ops onto a tree
RECURSIVE Replay(_, _, _)
Replay(store, ops, tree) ==
    IF Len(ops) = 0 THEN [status |-> "ok", tree |-> tree]
    ELSE LET m == MergeTrees(ParentTree(store, ops[1]), tree, store[ops[1]].tree)
         IN  IF m.conflicts # {} THEN [status |-> "conflict", tree |-> tree]
             ELSE IF m.tree = tree THEN [status |-> "applied", tree |-> tree]
             ELSE Replay(store, Tail(ops), m.tree)

\* the function got as far as replaying the branch: both names resolved and
\* the signature was read
ReplayStarted ==
    branch_annot # NoOid /\ error # ErrNoSignature

\* C1: after a successful squash the branch reference names the newly created
\* squash commit, and if HEAD named the branch before the call it still names
\* it and resolves to that commit.
C1_BranchAndHeadAtSquashCommit ==
    Succeeded =>
        /\ new_commit_id \in 1..Len(commits)
        /\ new_commit_id \notin {refs0[n] : n \in DOMAIN refs0}
        /\ refs[branch_refname] = new_commit_id
        /\ HeadOnBranch0 =>
              /\ head.symbolic
              /\ head.name = branch_refname
              /\ HeadCommit(head, refs) = new_commit_id

C1_Witness ==
    /\ Succeeded
    /\ variant = "lib"
    /\ HeadOnBranch0
    /\ Len(rebase.ops) >= 2
    /\ HeadCommit(head, refs) = new_commit_id
    /\ refs0[branch_refname] # new_commit_id

\* C2: after a successful squash the squash commit has exactly one parent, the
\* commit the upstream spec named at the call; the replayed series starts on
\* that same commit.
C2_SingleParentIsUpstream ==
    Succeeded =>
        /\ commits[new_commit_id].parents = <<UpstreamAtStart>>
        /\ LET replayed == UniqueCommits(commits, rebase.last_commit, UpstreamAtStart)
           IN  /\ Len(replayed) = Len(rebase.ops)
               /\ Len(replayed) > 0 => commits[replayed[1]].parents = <<UpstreamAtStart>>

C2_Witness ==
    /\ Succeeded
    /\ variant = "lib"
    /\ Len(rebase.ops) >= 2
    /\ commits[rebase.ops[1]].parents # <<UpstreamAtStart>>
    /\ commits[new_commit_id].parents = <<UpstreamAtStart>>

\* C3: after a successful squash the tree of the squash commit is the tree a
\* plain linearizing rebase of the branch onto the upstream ends with, that
\* is the tree of the last replayed commit of the session.
C3_TreeIsRebasedTree ==
    (Succeeded /\ variant = "lib") =>
        /\ commits[new_commit_id].tree = commits[rebase.last_commit].tree
        /\ commits[new_commit_id].tree =
              Replay(commits, UniqueCommits(commits, branch_annot, upstream_id),
                     commits[upstream_id].tree).tree

\* C4: when a change of the branch does not replay cleanly onto the upstream,
\* squash_branch fails with the conflict guidance (it names the conflict and
\* git rebase -i) and the branch reference is where it was.
C4_ConflictFailsWithGuidance ==
    ( /\ pc = "done"
      /\ variant = "lib"
      /\ ReplayStarted
      /\ Replay(commits, UniqueCommits(commits, branch_annot, upstream_id),
                commits[upstream_id].tree).status = "conflict" )
    => /\ result.kind = "Git"
       /\ contains(to_lowercase(result.message), WordConflict)
       /\ contains(result.message, WordRebaseI)
       /\ result.message # error.text
       /\ refs[branch_refname] = refs0[branch_refname]

C4_Witness ==
    /\ pc = "done"
    /\ variant = "lib"
    /\ error = ErrUnmerged
    /\ rebase.cur >= 2
    /\ result.message = GuidanceText

\* C5: when the branch has no commit that the upstream does not reach (same
\* commit, or strictly behind), squash_branch fails with the empty-range error
\* and the branch reference is where it was.
C5_EmptyRangeFails ==
    ( /\ pc = "done"
      /\ variant = "lib"
      /\ ReplayStarted
      /\ Len(UniqueCommits(commits, branch_annot, upstream_id)) = 0 )
    => /\ result = SquishErrorOther(NoCommitsText)
       /\ refs[branch_refname] = refs0[branch_refname]

C5_Witness ==
    /\ pc = "done"
    /\ variant = "lib"
    /\ ReplayStarted
    /\ branch_annot # upstream_id
    /\ Len(UniqueCommits(commits, branch_annot, upstream_id)) = 0
    /\ result.kind = "Other"

\* C6: once the function has returned, with success or with a failure, the
\* branch reference names a commit of the object store whose parents are in
\* the store too.
C6_BranchNeverDangling ==
    (pc = "done" /\ branch_refname \in DOMAIN refs) =>
        /\ refs[branch_refname] \in 1..Len(commits)
        /\ \A i \in 1..Len(commits[refs[branch_refname]].parents) :
              commits[refs[branch_refname]].parents[i] \in 1..Len(commits)

C6_Witness ==
    /\ pc = "done"
    /\ variant = "lib"
    /\ result.kind = "Git"
    /\ new_commit_id # NoOid
    /\ refs[branch_refname] = new_commit_id

\* C7: if HEAD named the branch at the call, HEAD names it in every state of
\* the operation and always resolves to an existing commit; the squash commit
\* exists with no reference on it before the branch is repointed, and the
\* branch names it before HEAD's target is written.
C7_HeadStaysOnBranch ==
    HeadOnBranch0 =>
        /\ head = head0
        /\ HeadCommit(head, refs) \in 1..Len(commits)
        /\ pc = "set_branch" =>
              /\ new_commit_id \in 1..Len(commits)
              /\ \A n \in DOMAIN refs : refs[n] # new_commit_id
        /\ pc = "move_head" => refs[branch_refname] = new_commit_id
        /\ HeadCommit(head, refs) # refs0[branch_refname] =>
              /\ HeadCommit(head, refs) = new_commit_id
              /\ pc \in {"move_head", "done"}

C7_Witness ==
    /\ HeadOnBranch0
    /\ variant = "lib"
    /\ Len(rebase.ops) >= 1
    /\ pc = "set_branch"
    /\ HeadCommit(head, refs) = refs0[branch_refname]
    /\ new_commit_id = Len(commits)

\* the message has the heading "Squashed commits:" followed by one
\* "* <summary>" line per commit of the range, oldest first
HasSquashedBody(m, range) ==
    /\ m.utf8
    /\ Len(m.lines) = 3 + Len(range)
    /\ m.lines[2] = <<>>
    /\ m.lines[3] = <<"Squashed", "commits:">>
    /\ \A i \in 1..Len(range) :
          m.lines[3 + i] =
             <<"*">> \o (IF commits[range[i]].message.utf8
                         THEN commits[range[i]].message.lines[1]
                         ELSE <<"(no", "subject)">>)

C9_TitleIsOldestMessage ==
    (Succeeded /\ variant = "lib") =>
        LET range == UniqueCommits(commits, rebased_tip_id, upstream_id)
        IN  /\ Len(range) > 0
            /\ commits[new_commit_id].message = commits[range[1]].message

C9_Witness ==
    /\ Succeeded
    /\ variant = "lib"
    /\ Len(UniqueCommits(commits, rebased_tip_id, upstream_id)) >= 2
    /\ commits[new_commit_id].message = Message(<< <<"A">>, <<>>, <<"details">> >>)

\* the texts of ErrorTexts that hold "conflict", or "merge" and "failed",
\* in any case
ConflictTexts ==
    {TextConflictInFile, TextUpperConflict, TextMergeFailed, TextNothingToMerge,
     TextFailedMerge, UnmergedText}

\* C10: an engine error becomes the conflict guidance exactly when its class
\* and code are one of the four conflict pairs or its text holds the
\* keywords; any other error keeps its text.  It is a Git failure either way.
C10_ConflictClassification ==
    pc = "converted" =>
        LET structured ==
                <<error.class, error.code>> \in
                   {<<"Merge", "Conflict">>, <<"Merge", "MergeConflict">>,
                    <<"Index", "Unmerged">>, <<"Checkout", "Conflict">>}
            textual == error.text \in ConflictTexts
        IN  /\ result.kind = "Git"
            /\ IF structured \/ textual
               THEN result.message = GuidanceText
               ELSE result.message = error.text /\ result.message # GuidanceText

C10_Witness ==
    /\ pc = "converted"
    /\ error = EngineError("Os", "GenericError", TextFailedMerge)
    /\ result.message = GuidanceText

\* the commits squash_branch walks for its message: those of the branch as it
\* was at the call that the upstream does not reach, oldest first
RangeAtCall == UniqueCommits(commits, refs0[branch_refname], upstream_id)

C12_CurrentBranchInference ==
    (pc = "returned" /\ variant = "lib") =>
        LET targeting == {n \in DOMAIN refs : refs[n] = head.target}
        IN  /\ (head.symbolic /\ head.name \in DOMAIN refs /\ name_is_utf8(head.name)) =>
                  result = NameOk(head.name)
            /\ (~head.symbolic /\ Cardinality(targeting) = 1) =>
                  \E n \in targeting : result = NameOk(n)
            /\ (~head.symbolic /\ Cardinality(targeting) # 1) =>
                  result = SquishErrorOther(NoBranchText)

\* the function was called again on the commit its first call made, and the
\* engine refused no read or write in this call
SecondRunReturned ==
    run >= 2 /\ pc = "done" /\ error \notin {ErrNoSignature, ErrLocked}

\* the squash commit the earlier call made: what the branch named at this call
PreviousSquash == commits[refs0[branch_refname]]

\* C13 as stated: a second squash of an already squashed branch onto the same
\* upstream succeeds and yields one commit with the tree and the sole parent
\* of the first squash commit.
C13_SecondSquashSameContent ==
    (SecondRunReturned /\ variant = "lib") =>
        /\ result.kind = "Ok"
        /\ Len(commits[new_commit_id].parents) = 1
        /\ commits[new_commit_id].parents = PreviousSquash.parents
        /\ commits[new_commit_id].tree = PreviousSquash.tree

\* C13 amended: that holds when the tree of the first squash commit differs
\* from the upstream's; when they are equal the second call fails with the
\* engine's "already applied" error and writes no reference.
C13_SecondSquashSameContentUnlessEmpty ==
    SecondRunReturned =>
        IF PreviousSquash.tree # commits[UpstreamAtStart].tree
        THEN /\ result.kind = "Ok"
             /\ Len(commits[new_commit_id].parents) = 1
             /\ commits[new_commit_id].parents = PreviousSquash.parents
             /\ commits[new_commit_id].parents = <<UpstreamAtStart>>
             /\ commits[new_commit_id].tree = PreviousSquash.tree
             /\ refs[branch_refname] = new_commit_id
        ELSE /\ error = ErrApplied
             /\ result.kind \in {"Git", "Engine"}
             /\ result.message = AppliedText
             /\ refs = refs0
             /\ head = head0

C13_Witness ==
    /\ SecondRunReturned
    /\ variant = "lib"
    /\ result.kind = "Ok"
    /\ new_commit_id # refs0[branch_refname]
    /\ commits[new_commit_id].tree = PreviousSquash.tree
    /\ commits[new_commit_id].parents = <<UpstreamAtStart>>

Replayed ==
    IF rebase.last_commit = NoOid THEN <<>>
    ELSE UniqueCommits(commits, rebase.last_commit, upstream_id)

\* commit c is the replay of operation op on top of c's parent
IsReplayOf(c, op) ==
    /\ commits[c].message = commits[op].message
    /\ Len(commits[c].parents) = 1
    /\ commits[c].tree = MergeTrees(ParentTree(commits, op),
                                     commits[commits[c].parents[1]].tree,
                                     commits[op].tree).tree

InLoop == pc \in {"rebase_next", "rebase_commit"}

LoopFailed == pc = "done" /\ error \in {ErrUnmerged, ErrApplied}

\* C15: the loop replays the operations of the session in their order, one
\* commit per operation, each committed before the next is requested; it
\* stops at the first operation that cannot be committed, and the session is
\* finished only when every operation has been replayed.
C15_LoopReplaysInOrder ==
    /\ (InLoop \/ LoopFailed \/ rebase.finished) =>
          /\ rebase.ops = RebaseOperations(commits, branch_annot, upstream_id)
          /\ Len(Replayed) <= Len(rebase.ops)
          /\ \A i \in 1..Len(Replayed) : IsReplayOf(Replayed[i], rebase.ops[i])
          /\ \A i \in 1..Len(Replayed) :
                commits[Replayed[i]].parents[1] =
                    IF i = 1 THEN upstream_id ELSE Replayed[i - 1]
    /\ pc = "rebase_next" => Len(Replayed) = rebase.cur
    /\ pc = "rebase_commit" =>
          /\ rebase.cur \in 1..Len(rebase.ops)
          /\ Len(Replayed) = rebase.cur - 1
    /\ LoopFailed =>
          /\ ~rebase.finished
          /\ rebase.cur \in 1..Len(rebase.ops)
          /\ Len(Replayed) = rebase.cur - 1
          /\ result.kind # "Ok"
    /\ rebase.finished =>
          /\ rebase.cur = Len(rebase.ops)
          /\ Len(Replayed) = Len(rebase.ops)
          /\ error \notin {ErrUnmerged, ErrApplied}

C15_Witness ==
    /\ LoopFailed
    /\ variant = "lib"
    /\ Len(rebase.ops) = 3
    /\ rebase.cur = 2
    /\ Len(Replayed) = 1
    /\ IsReplayOf(Replayed[1], rebase.ops[1])

\* C16: when HEAD did not name the branch at the call, the last step of the
\* function writes nothing and returns success, and a successful call has
\* repointed the branch to the squash commit and left HEAD, the commit HEAD
\* resolves to, and every other reference as they were.
C16_OnlyBranchRepointed ==
    /\ [] ( (Succeeded /\ ~HeadOnBranch0) =>
              /\ result = Success(branch_refname)
              /\ head = head0
              /\ HeadCommit(head, refs) = HeadCommit(head0, refs0)
              /\ DOMAIN refs = DOMAIN refs0
              /\ \A n \in DOMAIN refs \ {branch_refname} : refs[n] = refs0[n]
              /\ refs[branch_refname] = new_commit_id )
    /\ [][ (pc = "move_head" /\ ~HeadOnBranch0) =>
              /\ pc' = "done"
              /\ result' = Success(branch_refname)
              /\ refs' = refs
              /\ head' = head ]_vars

C16_Witness ==
    /\ Succeeded
    /\ variant = "lib"
    /\ ~head0.symbolic
    /\ head0.target = refs0[branch_refname]
    /\ new_commit_id # refs0[branch_refname]
    /\ refs[branch_refname] = new_commit_id
    /\ HeadCommit(head, refs) = refs0[branch_refname]

====
